---- MODULE Spec2Model ----
(***************************************************************************)
(* A model of the PNG chunk codec of pngme: the 4-byte chunk type          *)
(* (src/src/chunk_type.rs) and the chunk built on it (src/src/chunk.rs).   *)
(*                                                                         *)
(* Numbers.  TLC's integers are 32-bit signed, so a u32 (a length, a crc)  *)
(* and a usize (the length of a Vec<u8>) are kept as a pair of a high part *)
(* and a low 16-bit half: the value of [hi |-> h, lo |-> l] is             *)
(* h * 2^16 + l.  A u32 has hi < 2^16.                                     *)
(*                                                                         *)
(* Byte vectors.  A Vec<u8> or &[u8] is kept run-length encoded, as a      *)
(* sequence of runs [b |-> byte, n |-> count] with count > 0 and no two    *)
(* adjacent runs of the same byte, so that equal byte strings are equal    *)
(* values and a payload of 2^32 bytes is a value TLC can hold.             *)
(*                                                                         *)
(* Strings.  A &str or String is the sequence of its characters' code      *)
(* points; its bytes are their UTF-8 encoding.                             *)
(*                                                                         *)
(* Recursion over a vector goes by halves, so that TLC's evaluation stays  *)
(* shallow however long the vector is.                                     *)
(***************************************************************************)
EXTENDS Integers, Sequences, FiniteSets, TLC

\* --------------------------------------------------------------- numbers

W(n) == [hi |-> n \div 65536, lo |-> n % 65536]

WZero == [hi |-> 0, lo |-> 0]

WAdd(x, y) ==
    LET l == x.lo + y.lo
    IN  [hi |-> x.hi + y.hi + (l \div 65536), lo |-> l % 65536]

\* x - y, for x >= y.
WSub(x, y) ==
    IF x.lo >= y.lo
    THEN [hi |-> x.hi - y.hi, lo |-> x.lo - y.lo]
    ELSE [hi |-> x.hi - y.hi - 1, lo |-> (x.lo + 65536) - y.lo]

WLt(x, y) == x.hi < y.hi \/ (x.hi = y.hi /\ x.lo < y.lo)

WLe(x, y) == x = y \/ WLt(x, y)

WOdd(x) == x.lo % 2 = 1

WHalf(x) == [hi |-> x.hi \div 2, lo |-> ((x.hi % 2) * 32768) + (x.lo \div 2)]

\* `n as u32` for a usize n: the low 32 bits.
as_u32(n) == [hi |-> n.hi % 65536, lo |-> n.lo]

\* The read count cut to its low 16 bits.
as_usize_Narrow(n) == [hi |-> 0, lo |-> n.lo]

\* `n as usize` for a u32 n (usize is at least 32 bits wide): the same value.
as_usize(n) == [hi |-> n.hi, lo |-> n.lo]

\* u32::from_be_bytes on four bytes.
from_be_bytes(s) == [hi |-> (s[1] * 256) + s[2], lo |-> (s[3] * 256) + s[4]]

\* The four bytes of u in little-endian order.
to_le_bytes(u) == << u.lo % 256, u.lo \div 256, u.hi % 256, u.hi \div 256 >>

\* u32::to_be_bytes.
to_be_bytes(u) == << u.hi \div 256, u.hi % 256, u.lo \div 256, u.lo % 256 >>

\* ---------------------------------------------------------- bit operations

\* a xor b for 4-bit a and b.
XorTable ==
    [a \in 0..15 |-> [b \in 0..15 |->
        ((a + b) % 2)
        + (2 * (((a \div 2) + (b \div 2)) % 2))
        + (4 * (((a \div 4) + (b \div 4)) % 2))
        + (8 * (((a \div 8) + (b \div 8)) % 2))]]

\* a xor b for 16-bit a and b, nibble by nibble.
BitXor(a, b) ==
    XorTable[a % 16][b % 16]
    + (16 * XorTable[(a \div 16) % 16][(b \div 16) % 16])
    + (256 * XorTable[(a \div 256) % 16][(b \div 256) % 16])
    + (4096 * XorTable[a \div 4096][b \div 4096])

U32Xor(x, y) == [hi |-> BitXor(x.hi, y.hi), lo |-> BitXor(x.lo, y.lo)]

U32Shr1(x) == WHalf(x)

U32Shr8(x) == [hi |-> x.hi \div 256, lo |-> ((x.hi % 256) * 256) + (x.lo \div 256)]

\* x << k in 32 bits, for 0 < k <= 16.
U32Shl(x, k) ==
    LET m == 2 ^ (16 - k)
    IN  [hi |-> ((x.hi % m) * (2 ^ k)) + (x.lo \div m),
         lo |-> (x.lo % m) * (2 ^ k)]

\* ------------------------------------------------------------------ CRC-32

\* crc::CRC_32_ISO_HDLC: poly 0x04C11DB7 reflected (0xEDB88320), init
\* 0xFFFFFFFF, refin, refout, xorout 0xFFFFFFFF.
CrcPoly == [hi |-> 60856, lo |-> 33568]

CrcAllOnes == [hi |-> 65535, lo |-> 65535]

\* One bit through the reflected register.
CrcShift(r) == IF WOdd(r) THEN U32Xor(U32Shr1(r), CrcPoly) ELSE U32Shr1(r)

RECURSIVE CrcShifts(_, _)
CrcShifts(r, k) == IF k = 0 THEN r ELSE CrcShifts(CrcShift(r), k - 1)

\* The crc crate's lookup table: entry i is byte i through an empty register.
CrcTable == [i \in 0..255 |-> CrcShifts(W(i), 8)]

\* One byte through the register.
CrcByte(r, b) == U32Xor(U32Shr8(r), CrcTable[BitXor(r.lo % 256, b)])

\* The register holds a polynomial over GF(2) modulo the CRC polynomial, with
\* the coefficient of x^0 in bit 31; CrcShift is multiplication by x, so a run
\* of n zero bytes multiplies the register by x^(8n).

\* b * x^k.
RECURSIVE PolyMulX(_, _)
PolyMulX(b, k) ==
    IF k >= 8 THEN PolyMulX(CrcByte(b, 0), k - 8) ELSE CrcShifts(b, k)

\* The product of b and the k lowest-degree coefficients of a (its k top
\* bits), by halves: the low half of the coefficients times b, plus the high
\* half times b * x^(k/2).
RECURSIVE PolyMulFrom(_, _, _)
PolyMulFrom(a, b, k) ==
    IF a = WZero \/ b = WZero THEN WZero
    ELSE IF k = 1 THEN (IF a.hi >= 32768 THEN b ELSE WZero)
    ELSE LET h == k \div 2
         IN  U32Xor(PolyMulFrom(a, b, h),
                    PolyMulFrom(U32Shl(a, h), PolyMulX(b, h), h))

PolyMul(a, b) == PolyMulFrom(a, b, 32)

\* x^(8 * 2^k) for k = 0 .. 47, at index k + 1: each entry is the square of
\* the one before (ZeroByteTableOk).
ZeroByteTable ==
    <<[hi |-> 128, lo |-> 0], [hi |-> 0, lo |-> 32768],
       [hi |-> 60856, lo |-> 33568], [hi |-> 45542, lo |-> 45202],
       [hi |-> 41066, lo |-> 9495], [hi |-> 60770, lo |-> 32174],
       [hi |-> 35025, lo |-> 17511], [hi |-> 55227, lo |-> 65130],
       [hi |-> 60484, lo |-> 32529], [hi |-> 36478, lo |-> 41328],
       [hi |-> 25639, lo |-> 32782], [hi |-> 19783, lo |-> 47840],
       [hi |-> 2558, lo |-> 21647], [hi |-> 33669, lo |-> 11535],
       [hi |-> 12342, lo |-> 12058], [hi |-> 31578, lo |-> 40131],
       [hi |-> 12798, lo |-> 49513], [hi |-> 40940, lo |-> 554],
       [hi |-> 27789, lo |-> 60868], [hi |-> 5590, lo |-> 34637],
       [hi |-> 24542, lo |-> 31310], [hi |-> 47833, lo |-> 3639],
       [hi |-> 11854, lo |-> 24303], [hi |-> 20139, lo |-> 41492],
       [hi |-> 43172, lo |-> 29376], [hi |-> 17050, lo |-> 38558],
       [hi |-> 5261, lo |-> 12330], [hi |-> 50187, lo |-> 42704],
       [hi |-> 50402, lo |-> 11324], [hi |-> 16384, lo |-> 0],
       [hi |-> 8192, lo |-> 0], [hi |-> 2048, lo |-> 0],
       [hi |-> 128, lo |-> 0], [hi |-> 0, lo |-> 32768],
       [hi |-> 60856, lo |-> 33568], [hi |-> 45542, lo |-> 45202],
       [hi |-> 41066, lo |-> 9495], [hi |-> 60770, lo |-> 32174],
       [hi |-> 35025, lo |-> 17511], [hi |-> 55227, lo |-> 65130],
       [hi |-> 60484, lo |-> 32529], [hi |-> 36478, lo |-> 41328],
       [hi |-> 25639, lo |-> 32782], [hi |-> 19783, lo |-> 47840],
       [hi |-> 2558, lo |-> 21647], [hi |-> 33669, lo |-> 11535],
       [hi |-> 12342, lo |-> 12058], [hi |-> 31578, lo |-> 40131] >>

ZeroByteTableOk ==
    /\ ZeroByteTable[1] = PolyMulX([hi |-> 32768, lo |-> 0], 8)
    /\ \A k \in 1..(Len(ZeroByteTable) - 1) :
           ZeroByteTable[k + 1] = PolyMul(ZeroByteTable[k], ZeroByteTable[k])

\* acc * x^(8 * n * 2^k) for a two-part n: one factor of the table for each
\* bit of n.  (The test of acc against zero also makes TLC evaluate it at
\* every step, instead of stacking up the pending products.)
RECURSIVE PolyPowAcc(_, _, _)
PolyPowAcc(k, n, acc) ==
    IF n = WZero \/ acc = WZero THEN acc
    ELSE PolyPowAcc(k + 1, WHalf(n),
                    IF WOdd(n) THEN PolyMul(acc, ZeroByteTable[k + 1]) ELSE acc)

\* n zero bytes through the register: r * x^(8n).
CrcZeros(r, n) == PolyPowAcc(0, n, r)

\* n copies of byte b through the register.  (r.hi < 0 never holds: the test
\* makes TLC evaluate r at every step.)
RECURSIVE CrcRepeat(_, _, _)
CrcRepeat(r, b, n) ==
    IF n = WZero \/ r.hi < 0 THEN r
    ELSE CrcRepeat(CrcByte(r, b), b, WSub(n, W(1)))

CrcRun(r, run) ==
    IF run.b = 0 THEN CrcZeros(r, run.n) ELSE CrcRepeat(r, run.b, run.n)

\* The runs of v through the register, in order.  (m.hi < 0 never holds: the
\* test makes TLC finish the first half before it starts on the second.)
RECURSIVE CrcUpdate(_, _)
CrcUpdate(r, v) ==
    IF Len(v) = 0 THEN r
    ELSE IF Len(v) = 1 THEN CrcRun(r, v[1])
    ELSE LET h == Len(v) \div 2
             m == CrcUpdate(r, SubSeq(v, 1, h))
         IN  IF m.hi < 0 THEN m ELSE CrcUpdate(m, SubSeq(v, h + 1, Len(v)))

\* ALG.checksum(bytes).
checksum(v) == U32Xor(CrcUpdate(CrcAllOnes, v), CrcAllOnes)

\* ------------------------------------------------------------- byte vectors

\* vec![b; n].
VRepeat(b, n) == IF n = WZero THEN << >> ELSE << [b |-> b, n |-> n] >>

\* a ++ b.
VCat(a, b) ==
    IF a = << >> THEN b
    ELSE IF b = << >> THEN a
    ELSE LET x == a[Len(a)]
             y == b[1]
         IN  IF x.b = y.b
             THEN SubSeq(a, 1, Len(a) - 1)
                  \o << [b |-> x.b, n |-> WAdd(x.n, y.n)] >>
                  \o Tail(b)
             ELSE a \o b

\* The vector of an explicit sequence of bytes: one run from each index where
\* the byte changes to the next such index.
Pack(s) ==
    LET starts == { i \in 1..Len(s) : i = 1 \/ s[i] # s[i - 1] }
        stop(i) == IF \E j \in starts : j > i
                   THEN CHOOSE j \in starts :
                            j > i /\ \A k \in starts : k > i => j <= k
                   ELSE Len(s) + 1
        nth(k)  == CHOOSE i \in starts :
                       Cardinality({ j \in starts : j <= i }) = k
    IN  [ k \in 1..Cardinality(starts) |->
            [b |-> s[nth(k)], n |-> W(stop(nth(k)) - nth(k))] ]

\* v.len().
RECURSIVE VLen(_)
VLen(v) ==
    IF Len(v) = 0 THEN WZero
    ELSE IF Len(v) = 1 THEN v[1].n
    ELSE LET h == Len(v) \div 2
         IN  WAdd(VLen(SubSeq(v, 1, h)), VLen(SubSeq(v, h + 1, Len(v))))

\* &v[..n] (all of v when it is shorter).
RECURSIVE VTake(_, _)
VTake(v, n) ==
    IF Len(v) = 0 \/ n = WZero THEN << >>
    ELSE IF Len(v) = 1
         THEN (IF WLe(v[1].n, n) THEN v ELSE << [b |-> v[1].b, n |-> n] >>)
    ELSE LET h     == Len(v) \div 2
             left  == SubSeq(v, 1, h)
             right == SubSeq(v, h + 1, Len(v))
             ll    == VLen(left)
         IN  IF WLe(n, ll) THEN VTake(left, n)
             ELSE left \o VTake(right, WSub(n, ll))

\* &v[n..] (empty when v is shorter).
RECURSIVE VDrop(_, _)
VDrop(v, n) ==
    IF Len(v) = 0 \/ n = WZero THEN v
    ELSE IF Len(v) = 1
         THEN (IF WLe(v[1].n, n) THEN << >>
               ELSE << [b |-> v[1].b, n |-> WSub(v[1].n, n)] >>)
    ELSE LET h     == Len(v) \div 2
             left  == SubSeq(v, 1, h)
             right == SubSeq(v, h + 1, Len(v))
             ll    == VLen(left)
         IN  IF WLe(ll, n) THEN VDrop(right, WSub(n, ll))
             ELSE VDrop(left, n) \o right

\* v[i], for i < v.len(), counting from 0.
VAt(v, i) == VDrop(v, i)[1].b

\* The bytes of a short vector, as an explicit sequence.
RECURSIVE Unpack(_)
Unpack(v) ==
    IF v = << >> THEN << >>
    ELSE << v[1].b >> \o Unpack(VDrop(v, W(1)))

\* ------------------------------------------------- chunk_type.rs: strings

\* The UTF-8 encoding of one character (a code point below 2^16).
Utf8(c) ==
    IF c < 128 THEN << c >>
    ELSE IF c < 2048 THEN << 192 + (c \div 64), 128 + (c % 64) >>
    ELSE << 224 + (c \div 4096), 128 + ((c \div 64) % 64), 128 + (c % 64) >>

\* s.as_bytes().
RECURSIVE str_as_bytes(_)
str_as_bytes(s) ==
    IF s = << >> THEN << >> ELSE Utf8(Head(s)) \o str_as_bytes(Tail(s))

\* n.to_string() for a usize n: its decimal digits.
RECURSIVE to_string(_)
to_string(n) ==
    IF n < 10 THEN << 48 + n >>
    ELSE to_string(n \div 10) \o << 48 + (n % 10) >>

\* --------------------------------------------------- chunk_type.rs: values

Ok(v) == [kind |-> "Ok", value |-> v]

\* ChunkTypeError::InvalidEncoding.
InvalidEncoding == [kind |-> "InvalidEncoding"]

\* ChunkTypeError::InvalidLength { found }.
TypeInvalidLength(found) == [kind |-> "InvalidLength", found |-> found]

\* u8::is_ascii on every byte of the array.
is_ascii(value) == \A i \in 1..Len(value) : value[i] <= 127

is_ascii_uppercase(b) == b >= 65 /\ b <= 90

is_ascii_lowercase(b) == b >= 97 /\ b <= 122

\* try_from without the ASCII check.
ChunkType_try_from_Unchecked(value) == Ok([bytes |-> value])

\* impl TryFrom<[u8; 4]> for ChunkType.
ChunkType_try_from(value) ==
    IF is_ascii(value) THEN Ok([bytes |-> value]) ELSE InvalidEncoding

\* from_str reporting the number of characters of s, not of its bytes.
ChunkType_from_str_CharCount(s) ==
    IF Len(str_as_bytes(s)) # 4
    THEN TypeInvalidLength(to_string(Len(s)))
    ELSE ChunkType_try_from(str_as_bytes(s))

\* impl FromStr for ChunkType.
ChunkType_from_str(s) ==
    IF Len(str_as_bytes(s)) # 4
    THEN TypeInvalidLength(to_string(Len(str_as_bytes(s))))
    ELSE ChunkType_try_from(str_as_bytes(s))

\* ChunkType::bytes.
bytes(t) == t.bytes

is_critical(t) == is_ascii_uppercase(t.bytes[1])

is_public(t) == is_ascii_uppercase(t.bytes[2])

is_reserved_bit_valid(t) == is_ascii_uppercase(t.bytes[3])

\* is_safe_to_copy testing for an uppercase letter, as the other three do.
is_safe_to_copy_Uppercase(t) == is_ascii_uppercase(t.bytes[4])

is_safe_to_copy(t) == is_ascii_lowercase(t.bytes[4])

\* ----------------------------------------------------------- chunk.rs

\* ChunkError::InvalidLength { actual, found }.
ChunkInvalidLength(actual, found) ==
    [kind |-> "InvalidLength", actual |-> actual, found |-> found]

\* ChunkError::InvalidCrc { actual, found }.
InvalidCrc(actual, found) ==
    [kind |-> "InvalidCrc", actual |-> actual, found |-> found]

\* The io::Error (UnexpectedEof) of a read_exact that ran out of bytes.
UnexpectedEof == [kind |-> "Io"]

\* Chunk::new with the checksum of the data alone, the chunk type left out.
Chunk_new_CrcOfData(chunk_type, chunk_data) ==
    [length     |-> as_u32(VLen(chunk_data)),
     chunk_type |-> chunk_type,
     chunk_data |-> chunk_data,
     crc        |-> checksum(chunk_data)]

\* Chunk::new with a length that counts the four bytes of the chunk type too.
Chunk_new_LengthWithType(chunk_type, chunk_data) ==
    [length     |-> as_u32(WAdd(VLen(chunk_data), W(4))),
     chunk_type |-> chunk_type,
     chunk_data |-> chunk_data,
     crc        |-> checksum(VCat(Pack(bytes(chunk_type)), chunk_data))]

\* Chunk::new.
Chunk_new(chunk_type, chunk_data) ==
    [length     |-> as_u32(VLen(chunk_data)),
     chunk_type |-> chunk_type,
     chunk_data |-> chunk_data,
     crc        |-> checksum(VCat(Pack(bytes(chunk_type)), chunk_data))]

\* Chunk::as_bytes.
as_bytes(c) ==
    VCat(VCat(VCat(Pack(to_be_bytes(c.length)), Pack(bytes(c.chunk_type))),
              c.chunk_data),
         Pack(to_be_bytes(c.crc)))

\* reader.read_exact(&mut buf) for a buf of n bytes, the reader being the
\* unread rest of the slice: the bytes read and the rest after them, or
\* failure when fewer than n bytes are left.
read_exact(reader, n) ==
    [ok   |-> WLe(n, VLen(reader)),
     buf  |-> VTake(reader, n),
     rest |-> VDrop(reader, n)]

\* try_from taking everything between the chunk type and the last four bytes
\* of the slice as the data, whatever the length field says.
Chunk_try_from_ReadToEnd(value) ==
    LET r1 == read_exact(value, W(4))
    IN  IF ~r1.ok THEN UnexpectedEof
        ELSE
    LET length == from_be_bytes(Unpack(r1.buf))
        r2     == read_exact(r1.rest, W(4))
    IN  IF ~r2.ok THEN UnexpectedEof
        ELSE
    LET chunk_type == ChunkType_try_from(Unpack(r2.buf))
    IN  IF chunk_type.kind # "Ok" THEN chunk_type
        ELSE IF WLt(VLen(r2.rest), W(4)) THEN UnexpectedEof
        ELSE
    LET r3 == read_exact(r2.rest, WSub(VLen(r2.rest), W(4)))
        r4 == read_exact(r3.rest, W(4))
        crc   == from_be_bytes(Unpack(r4.buf))
        chunk == Chunk_new(chunk_type.value, r3.buf)
    IN  IF chunk.length # length
        THEN ChunkInvalidLength(chunk.length, length)
        ELSE IF chunk.crc # crc
        THEN InvalidCrc(chunk.crc, crc)
        ELSE Ok([length     |-> length,
                 chunk_type |-> chunk_type.value,
                 chunk_data |-> r3.buf,
                 crc        |-> crc])

\* try_from without the comparison of the two checksums.
Chunk_try_from_NoCrcCheck(value) ==
    LET r1 == read_exact(value, W(4))
    IN  IF ~r1.ok THEN UnexpectedEof
        ELSE
    LET length == from_be_bytes(Unpack(r1.buf))
        r2     == read_exact(r1.rest, W(4))
    IN  IF ~r2.ok THEN UnexpectedEof
        ELSE
    LET chunk_type == ChunkType_try_from(Unpack(r2.buf))
    IN  IF chunk_type.kind # "Ok" THEN chunk_type
        ELSE
    LET r3 == read_exact(r2.rest, as_usize(length))
    IN  IF ~r3.ok THEN UnexpectedEof
        ELSE
    LET r4 == read_exact(r3.rest, W(4))
    IN  IF ~r4.ok THEN UnexpectedEof
        ELSE
    LET crc   == from_be_bytes(Unpack(r4.buf))
        chunk == Chunk_new(chunk_type.value, r3.buf)
    IN  IF chunk.length # length
        THEN ChunkInvalidLength(chunk.length, length)
        ELSE Ok([length     |-> length,
                 chunk_type |-> chunk_type.value,
                 chunk_data |-> r3.buf,
                 crc        |-> crc])

\* impl TryFrom<&[u8]> for Chunk.
Chunk_try_from(value) ==
    LET r1 == read_exact(value, W(4))
    IN  IF ~r1.ok THEN UnexpectedEof
        ELSE
    LET length == from_be_bytes(Unpack(r1.buf))
        r2     == read_exact(r1.rest, W(4))
    IN  IF ~r2.ok THEN UnexpectedEof
        ELSE
    LET chunk_type == ChunkType_try_from(Unpack(r2.buf))
    IN  IF chunk_type.kind # "Ok" THEN chunk_type
        ELSE
    LET r3 == read_exact(r2.rest, as_usize(length))
    IN  IF ~r3.ok THEN UnexpectedEof
        ELSE
    LET r4 == read_exact(r3.rest, W(4))
    IN  IF ~r4.ok THEN UnexpectedEof
        ELSE
    LET crc   == from_be_bytes(Unpack(r4.buf))
        chunk == Chunk_new(chunk_type.value, r3.buf)
    IN  IF chunk.length # length
        THEN ChunkInvalidLength(chunk.length, length)
        ELSE IF chunk.crc # crc
        THEN InvalidCrc(chunk.crc, crc)
        ELSE Ok([length     |-> length,
                 chunk_type |-> chunk_type.value,
                 chunk_data |-> r3.buf,
                 crc        |-> crc])

\* ------------------------------------------------------------------ state

VARIABLES
    op,         \* the last call made
    chunk,      \* the Chunk returned by Chunk::new
    encoded,    \* chunk.as_bytes()
    how,        \* how `value` was made from `encoded`
    value,      \* the slice given to Chunk::try_from
    parsed,     \* the Result of Chunk::try_from(value)
    reencoded,  \* as_bytes() of the chunk in `parsed`
    targ,       \* the argument of the last ChunkType constructor call
    tres,       \* the Result of that call
    flags,      \* the four properties of the ChunkType in `tres`
    prev        \* the properties of the ChunkType before its case was flipped

chunkVars == << chunk, encoded, how, value, parsed, reencoded >>

typeVars == << targ, tres, flags, prev >>

vars == << op, chunk, encoded, how, value, parsed, reencoded,
           targ, tres, flags, prev >>

None == [kind |-> "None"]

Some(v) == [kind |-> "Some", v |-> v]

Init ==
    /\ op = "init"
    /\ chunk = None
    /\ encoded = None
    /\ how = None
    /\ value = None
    /\ parsed = None
    /\ reencoded = None
    /\ targ = None
    /\ tres = None
    /\ flags = None
    /\ prev = None

\* ----------------------------------------------------------------- inputs

\* Byte offsets into a buffer that the callers below touch: the first MaxPos
\* and the last four.
MaxPos == 14

\* The longest string given to ChunkType::from_str, in characters.
MaxStrLen == 5

\* "RuSt", as in the tests.
RuSt == << 82, 117, 83, 116 >>

\* "This is where your secret message will be!", as in the tests.
Message ==
    << 84, 104, 105, 115, 32, 105, 115, 32, 119, 104, 101, 114, 101, 32,
       121, 111, 117, 114, 32, 115, 101, 99, 114, 101, 116, 32, 109, 101,
       115, 115, 97, 103, 101, 32, 119, 105, 108, 108, 32, 98, 101, 33 >>

\* Arrays given to ChunkType::try_from before Chunk::new: the last is not ASCII.
TagArrays == { RuSt, << 97, 0, 127, 90 >>, << 82, 117, 83, 200 >> }

SmallPayloads ==
    { Pack(<< >>), Pack(<< 0 >>), Pack(<< 1 >>), Pack(<< 0, 0 >>),
      Pack(<< 255, 7 >>) }

\* Payloads of 2^31, 2^32 and 2^32 + 1 bytes.
BigPayloads ==
    { VRepeat(0, [hi |-> 32768, lo |-> 0]),
      VRepeat(0, [hi |-> 65536, lo |-> 0]),
      VCat(Pack(<< 7 >>), VRepeat(0, [hi |-> 65536, lo |-> 0])) }

NewInputs ==
    { [tag |-> t, data |-> d] : t \in TagArrays, d \in SmallPayloads }
    \cup { [tag |-> RuSt, data |-> d] :
             d \in { Pack(str_as_bytes(Message)) } \cup BigPayloads }

\* Bytes after the end of a chunk.
Trailers == { Pack(<< 0 >>), Pack(<< 255, 1 >>) }

\* The offsets into v that are touched.
Positions(v) ==
    LET n == VLen(v)
    IN  { W(i) : i \in { j \in 0..(MaxPos - 1) : WLt(W(j), n) } }
        \cup { WSub(n, W(k)) : k \in { j \in 1..4 : WLe(W(j), n) } }

\* v with byte p replaced by b.
SetByte(v, p, b) ==
    VCat(VCat(VTake(v, p), Pack(<< b >>)), VDrop(v, WAdd(p, W(1))))

\* v with bit k of byte p flipped.
FlipBit(v, p, k) == SetByte(v, p, BitXor(VAt(v, p), 2 ^ k))

\* What happens to the bytes of a chunk on their way to Chunk::try_from:
\* nothing, or one bit is flipped; and then nothing, or the buffer is cut
\* short, or more bytes follow it.
Alterations(v) ==
    { [kind |-> "none", pos |-> WZero, bit |-> 0] }
    \cup { [kind |-> "flip", pos |-> p, bit |-> k] :
             p \in Positions(v), k \in 0..7 }

Resizings(v) ==
    { [kind |-> "none", len |-> WZero, tail |-> << >>] }
    \cup { [kind |-> "truncate", len |-> n, tail |-> << >>] :
             n \in Positions(v) }
    \cup { [kind |-> "append", len |-> WZero, tail |-> t] : t \in Trailers }

Alter(v, alt) ==
    IF alt.kind = "flip" THEN FlipBit(v, alt.pos, alt.bit) ELSE v

Resize(v, rs) ==
    IF rs.kind = "truncate" THEN VTake(v, rs.len)
    ELSE IF rs.kind = "append" THEN VCat(v, rs.tail)
    ELSE v

\* Bytes of the arrays given to ChunkType::try_from: the ends of the two
\* letter ranges, their neighbours, and the first byte that is not ASCII.
TagBytes == { 65, 90, 91, 96, 97, 122, 127, 128 }

\* 'R', 't', 'E' with diaeresis (2 bytes in UTF-8), the euro sign (3 bytes).
StrChars == { 82, 116, 203, 8364 }

\* Strings given to ChunkType::from_str: all up to MaxStrLen characters over
\* StrChars, and those of the tests: "RuSt", "RuStt" and "R" followed by E with
\* diaeresis, e with grave and O with stroke.
StrInputs ==
    UNION { [1..n -> StrChars] : n \in 0..MaxStrLen }
    \cup { RuSt, << 82, 117, 83, 116, 116 >>, << 82, 203, 232, 216 >> }

\* ---------------------------------------------------------------- actions

\* Chunk::new(chunk_type, chunk_data), the chunk type made by
\* ChunkType::try_from.
New ==
    /\ op = "init"
    /\ \E in \in NewInputs :
         LET t == ChunkType_try_from(in.tag)
         IN  /\ t.kind = "Ok"
             /\ chunk' = Chunk_new(t.value, in.data)
    /\ op' = "new"
    /\ UNCHANGED << encoded, how, value, parsed, reencoded >>
    /\ UNCHANGED typeVars

\* chunk.as_bytes().
AsBytes ==
    /\ chunk # None
    /\ encoded = None
    /\ encoded' = Some(as_bytes(chunk))
    /\ op' = "as_bytes"
    /\ UNCHANGED << chunk, how, value, parsed, reencoded >>
    /\ UNCHANGED typeVars

\* Chunk::try_from(value).
TryFrom ==
    /\ encoded # None
    /\ parsed = None
    /\ \E alt \in Alterations(encoded.v) :
         \E rs \in Resizings(encoded.v) :
           LET b == Resize(Alter(encoded.v, alt), rs)
           IN  /\ how' = [alt |-> alt, rs |-> rs]
               /\ value' = Some(b)
               /\ parsed' = Chunk_try_from(b)
    /\ op' = "try_from"
    /\ UNCHANGED << chunk, encoded, reencoded >>
    /\ UNCHANGED typeVars

\* as_bytes() of the chunk that Chunk::try_from returned.
AsBytesParsed ==
    /\ parsed # None
    /\ parsed.kind = "Ok"
    /\ reencoded = None
    /\ reencoded' = Some(as_bytes(parsed.value))
    /\ op' = "as_bytes_parsed"
    /\ UNCHANGED << chunk, encoded, how, value, parsed >>
    /\ UNCHANGED typeVars

\* ChunkType::try_from(value).
TypeTryFrom ==
    /\ op = "init"
    /\ \E value4 \in TagBytes \X TagBytes \X TagBytes \X TagBytes :
         /\ targ' = [kind |-> "bytes", value |-> value4]
         /\ tres' = ChunkType_try_from(value4)
    /\ op' = "type_try_from"
    /\ UNCHANGED << flags, prev >>
    /\ UNCHANGED chunkVars

\* ChunkType::from_str(s).
TypeFromStr ==
    /\ op = "init"
    /\ \E s \in StrInputs :
         /\ targ' = [kind |-> "str", value |-> s]
         /\ tres' = ChunkType_from_str(s)
    /\ op' = "from_str"
    /\ UNCHANGED << flags, prev >>
    /\ UNCHANGED chunkVars

\* is_critical, is_public, is_reserved_bit_valid and is_safe_to_copy of the
\* chunk type made last.
Accessors ==
    /\ tres # None
    /\ tres.kind = "Ok"
    /\ flags = None
    /\ flags' = [kind               |-> "Some",
                 critical           |-> is_critical(tres.value),
                 public             |-> is_public(tres.value),
                 reserved_bit_valid |-> is_reserved_bit_valid(tres.value),
                 safe_to_copy       |-> is_safe_to_copy(tres.value)]
    /\ op' = "accessors"
    /\ UNCHANGED << targ, tres, prev >>
    /\ UNCHANGED chunkVars

\* The byte b with its case flipped.
OtherCase(b) == IF is_ascii_uppercase(b) THEN b + 32 ELSE b - 32

\* A second chunk type, made from the bytes of the first with the case of the
\* letter at index i flipped (as the tests pair "RuSt" with "ruSt", "RUSt",
\* "Rust" and "RuST").
FlipCase ==
    /\ flags # None
    /\ prev = None
    /\ \E i \in 1..4 :
         LET b == bytes(tres.value)
         IN  /\ is_ascii_uppercase(b[i]) \/ is_ascii_lowercase(b[i])
             /\ targ' = [kind  |-> "bytes",
                         value |-> [b EXCEPT ![i] = OtherCase(b[i])]]
             /\ tres' = ChunkType_try_from([b EXCEPT ![i] = OtherCase(b[i])])
             /\ prev' = [kind |-> "Some", idx |-> i, flags |-> flags]
    /\ flags' = None
    /\ op' = "flip_case"
    /\ UNCHANGED chunkVars

Next == New \/ AsBytes \/ TryFrom \/ AsBytesParsed

Spec == Init /\ [][Next]_vars

NextType == TypeTryFrom \/ TypeFromStr \/ Accessors \/ FlipCase

SpecType == Init /\ [][NextType]_vars

\* ------------------------------------------------------ ChunkType claims

\* The number of bytes of the UTF-8 encoding of the string s, by the ranges
\* of its code points.
RECURSIVE Utf8Len(_)
Utf8Len(s) ==
    IF s = << >> THEN 0
    ELSE (IF Head(s) < 128 THEN 1 ELSE IF Head(s) < 2048 THEN 2 ELSE 3)
         + Utf8Len(Tail(s))

\* The number that the decimal digits d render.
RECURSIVE DecimalValue(_)
DecimalValue(d) ==
    IF d = << >> THEN 0
    ELSE (10 * DecimalValue(SubSeq(d, 1, Len(d) - 1))) + (d[Len(d)] - 48)

\* d is the decimal rendering of n: digits only, no leading zero.
IsDecimalOf(d, n) ==
    /\ Len(d) >= 1
    /\ \A i \in 1..Len(d) : d[i] >= 48 /\ d[i] <= 57
    /\ Len(d) > 1 => d[1] # 48
    /\ DecimalValue(d) = n

\* The candidate given to the last constructor call holds a byte >= 0x80:
\* such a byte of the array, or a character of the string outside ASCII
\* (UTF-8 encodes exactly those with bytes >= 0x80).
CandidateNotAscii ==
    /\ op \in { "type_try_from", "from_str" }
    /\ \E i \in 1..Len(targ.value) : targ.value[i] >= 128

\* C5: a candidate that holds a byte >= 0x80 at any position, given as a
\* 4-byte array to ChunkType::try_from or as text to ChunkType::from_str
\* (the string "R" + E-diaeresis + e-grave + O-stroke among them), always
\* fails with InvalidEncoding.
C5_NonAsciiIsInvalidEncoding ==
    CandidateNotAscii => tres = InvalidEncoding

C7_FlagsArePositional ==
    flags # None =>
        /\ flags.critical = (tres.value.bytes[1] \in 65..90)
        /\ flags.public = (tres.value.bytes[2] \in 65..90)
        /\ flags.reserved_bit_valid = (tres.value.bytes[3] \in 65..90)
        /\ flags.safe_to_copy = (tres.value.bytes[4] \in 97..122)
        /\ prev # None =>
             /\ (flags.critical # prev.flags.critical) = (prev.idx = 1)
             /\ (flags.public # prev.flags.public) = (prev.idx = 2)
             /\ (flags.reserved_bit_valid # prev.flags.reserved_bit_valid)
                  = (prev.idx = 3)
             /\ (flags.safe_to_copy # prev.flags.safe_to_copy)
                  = (prev.idx = 4)

\* The case of the last byte of a safe-to-copy chunk type was flipped, and
\* the new chunk type is not safe to copy.
C7_Witness ==
    /\ flags # None
    /\ prev # None
    /\ prev.idx = 4
    /\ prev.flags.safe_to_copy
    /\ ~flags.safe_to_copy
    /\ flags.critical

\* ---------------------------------------------------------- Chunk claims

\* 2^32, the first payload size that a u32 cannot hold.
U32Range == [hi |-> 65536, lo |-> 0]

\* The big-endian number in the four bytes of v from offset p on.
BigEndianAt(v, p) ==
    LET s == Unpack(VTake(VDrop(v, p), W(4)))
    IN  [hi |-> (256 * s[1]) + s[2], lo |-> (256 * s[3]) + s[4]]

\* length == len(data) for the chunk c.
LengthIsLen(c) == c.length = VLen(c.chunk_data)

\* crc == CRC32(type bytes ++ data) for the chunk c.
CrcIsChecksum(c) ==
    c.crc = checksum(VCat(Pack(c.chunk_type.bytes), c.chunk_data))

\* Chunk::new was just called with "RuSt" and the message of the tests.
NewOfMessage ==
    /\ op = "new"
    /\ chunk.chunk_type.bytes = RuSt
    /\ chunk.chunk_data = Pack(Message)

\* C1, as claimed: every Chunk, whether returned by Chunk::new for any
\* payload whatever its size, or by a successful Chunk::try_from, has
\* length == len(data) and crc == CRC32(type bytes ++ data).
C1_InvariantAnyPayload ==
    /\ op = "new" => LengthIsLen(chunk) /\ CrcIsChecksum(chunk)
    /\ (op = "try_from" /\ parsed.kind = "Ok") =>
           LengthIsLen(parsed.value) /\ CrcIsChecksum(parsed.value)

\* C1, amended: every Chunk returned by Chunk::new for a payload of fewer
\* than 2^32 bytes, or by a successful Chunk::try_from, has
\* length == len(data) and crc == CRC32(type bytes ++ data); the CRC-32 of
\* "RuSt" and the message of the tests is 2882656334 (43985 * 2^16 + 55374).
C1_InvariantBelow2to32 ==
    /\ (op = "new" /\ WLt(VLen(chunk.chunk_data), U32Range)) =>
           LengthIsLen(chunk) /\ CrcIsChecksum(chunk)
    /\ (op = "try_from" /\ parsed.kind = "Ok") =>
           LengthIsLen(parsed.value) /\ CrcIsChecksum(parsed.value)
    /\ NewOfMessage => chunk.crc = [hi |-> 43985, lo |-> 55374]

\* Chunk::new returned a chunk of 2^31 bytes of data.
C1_Witness ==
    /\ op = "new"
    /\ VLen(chunk.chunk_data) = [hi |-> 32768, lo |-> 0]
    /\ chunk.length = [hi |-> 32768, lo |-> 0]

\* Chunk::try_from was just given what as_bytes() returned, unchanged.
RoundTrip ==
    /\ op = "try_from"
    /\ how.alt.kind = "none"
    /\ how.rs.kind = "none"

\* C2, as claimed: for any payload d, Chunk::try_from(Chunk::new(t, d)
\* .as_bytes()) succeeds with the length, type, data and crc of
\* Chunk::new(t, d).
C2_RoundTripAnyPayload ==
    RoundTrip => parsed = Ok(chunk)

\* C2, amended: for any payload d of fewer than 2^32 bytes,
\* Chunk::try_from(Chunk::new(t, d).as_bytes()) succeeds with the length,
\* type, data and crc of Chunk::new(t, d).
C2_RoundTripBelow2to32 ==
    (RoundTrip /\ WLt(VLen(chunk.chunk_data), U32Range)) =>
        parsed = Ok(chunk)

\* The chunk of the tests went through as_bytes() and try_from.
C2_Witness ==
    /\ RoundTrip
    /\ chunk.chunk_data = Pack(Message)
    /\ parsed.kind = "Ok"
    /\ parsed.value.length = W(42)

\* Ends of a buffer, among them one that reads as a chunk header.
C3Tails == { << >>, Pack(<< 1 >>), Pack(<< 0, 0, 0, 0, 82, 117, 83, 116 >>) }

\* C3: when Chunk::try_from(b) succeeds with declared length L, as_bytes()
\* of the result is the first 12 + L bytes of b, and try_from returns the
\* same for any other bytes from index 12 + L on.
C3_ParsedPrefix ==
    /\ op = "as_bytes_parsed" =>
         reencoded.v = VTake(value.v, WAdd(W(12), parsed.value.length))
    /\ (op = "try_from" /\ parsed.kind = "Ok") =>
         /\ WLe(WAdd(W(12), parsed.value.length), VLen(value.v))
         /\ \A t \in C3Tails :
              Chunk_try_from(
                  VCat(VTake(value.v, WAdd(W(12), parsed.value.length)), t))
              = parsed

\* A buffer with bytes after the chunk was parsed, and as_bytes() of the
\* result is the buffer without them.
C3_Witness ==
    /\ op = "as_bytes_parsed"
    /\ how.rs.kind = "append"
    /\ reencoded.v # value.v
    /\ reencoded = encoded

\* C4: one flipped bit in the payload or in the crc field of as_bytes() of
\* a valid chunk (length == len(data)) makes Chunk::try_from fail with
\* InvalidCrc.
C4_BitFlipIsInvalidCrc ==
    ( /\ op = "try_from"
      /\ how.alt.kind = "flip"
      /\ how.rs.kind = "none"
      /\ WLe(W(8), how.alt.pos)
      /\ LengthIsLen(chunk) ) =>
        /\ parsed.kind = "InvalidCrc"
        /\ parsed.found = BigEndianAt(value.v, WSub(VLen(value.v), W(4)))

\* A bit of the payload of the chunk of the tests was flipped, and the
\* recomputed checksum is not the embedded one.
C4_Witness ==
    /\ op = "try_from"
    /\ how.alt.kind = "flip"
    /\ how.alt.pos = W(13)
    /\ how.rs.kind = "none"
    /\ chunk.chunk_data = Pack(Message)
    /\ parsed.kind = "InvalidCrc"
    /\ parsed.found = chunk.crc
    /\ parsed.actual # chunk.crc

\* C8, as claimed: Chunk::new with "RuSt" and the message of the tests
\* returns a chunk whose length() is 44.
C8_MessageLength44 ==
    NewOfMessage => chunk.length = W(44)

\* C8, amended: Chunk::new with "RuSt" and the message of the tests returns
\* a chunk whose length() is 42.
C8_MessageLength42 ==
    NewOfMessage => chunk.length = W(42)

C8_Witness ==
    /\ NewOfMessage
    /\ Len(Message) = 42

\* What C9 says Chunk::try_from returns for the buffer b, by the offsets
\* into b.
ParseOutcome(b) ==
    IF WLt(VLen(b), W(8)) THEN UnexpectedEof
    ELSE
    LET L   == BigEndianAt(b, W(0))
        tag == Unpack(VTake(VDrop(b, W(4)), W(4)))
    IN  IF \E i \in 1..4 : tag[i] >= 128 THEN InvalidEncoding
        ELSE IF WLt(VLen(b), WAdd(W(12), L)) THEN UnexpectedEof
        ELSE
    LET embedded == BigEndianAt(b, WAdd(W(8), L))
        computed == checksum(VTake(VDrop(b, W(4)), WAdd(W(4), L)))
    IN  IF embedded # computed THEN InvalidCrc(computed, embedded)
        ELSE Ok([length     |-> L,
                 chunk_type |-> [bytes |-> tag],
                 chunk_data |-> VTake(VDrop(b, W(8)), L),
                 crc        |-> embedded])

\* C9: Chunk::try_from(b) fails with a read error if len(b) < 8; else with
\* InvalidEncoding if one of bytes 4..8 is >= 0x80; else with a read error if
\* len(b) < 12 + L, L the big-endian u32 in bytes 0..4; else with
\* InvalidCrc{actual, found} if the big-endian u32 in bytes 8+L..12+L (found)
\* is not CRC32(bytes 4..8+L) (actual); else succeeds with L, bytes 4..8,
\* bytes 8..8+L and the embedded crc.
C9_FirstFailingStep ==
    op = "try_from" => parsed = ParseOutcome(value.v)

\* A buffer with a chunk type that is not ASCII and without its crc field
\* was rejected for the chunk type.
C9_Witness ==
    /\ op = "try_from"
    /\ how.alt.kind = "flip"
    /\ how.alt.pos = W(5)
    /\ how.alt.bit = 7
    /\ how.rs.kind = "truncate"
    /\ how.rs.len = W(9)
    /\ parsed = InvalidEncoding

\* C10: Chunk::try_from never returns ChunkError::InvalidLength.
C10_NoInvalidLength ==
    op = "try_from" => parsed.kind # "InvalidLength"

\* A bit of the length field was flipped, the buffer is long enough for the
\* new length, and the failure is InvalidCrc.
C10_Witness ==
    /\ op = "try_from"
    /\ how.alt.kind = "flip"
    /\ WLt(how.alt.pos, W(4))
    /\ how.rs.kind = "none"
    /\ BigEndianAt(value.v, W(0)) # chunk.length
    /\ parsed.kind = "InvalidCrc"

====
